---------------------------- MODULE Spec2Model ----------------------------
(***************************************************************************)
(* Model of goagen/gen_app/generator.go: the application code generator.   *)
(* One call of Generator.Generate is a sequential process (pc) that        *)
(* recreates the output directory and runs the artifact writers; the       *)
(* interrupt watcher started by each call is a concurrent process that     *)
(* calls Generator.Cleanup when a signal arrives.                          *)
(***************************************************************************)
EXTENDS Integers, Sequences, FiniteSets, TLC

\* Number of calls of Generate on the same Generator that are explored.
MaxRuns == 2

VARIABLES
    api,        \* the *design.APIDefinition argument of Generate
    notest,     \* Generator.notest
    design,     \* the package-level design.Design
    genfiles,   \* Generator.genfiles
    pc,         \* position of the goroutine running Generate
    err,        \* the named result err of Generate
    retFiles,   \* the file list Generate returned
    dirExists,  \* whether Generator.outDir exists on disk
    oldFiles,   \* files under outDir that this run did not write
    newFiles,   \* files under outDir written by this run
    locked,     \* whether the file found under outDir resists removal
    watcher,    \* per call: the goroutine running utils.Catch
    run,        \* number of calls of Generate so far
    started,    \* writers called in this run, in call order
    active,     \* writers called and not yet returned
    returned,   \* the error each writer of this run returned
    handed,     \* data handed to each writer's Execute in this run
    cleaned,    \* whether Generate's deferred function called Cleanup
    preDir,     \* the output directory as it was when this run started
    signalled,  \* whether a signal was delivered before this run returned
    written,    \* files created by the writers of this run, in order
    prevOut,    \* outcome of the previous run of Generate
    imports,    \* import list handed to the controllers writer's WriteHeader
    mount,      \* a request being served by a generated mount handler
    removedBy   \* the caller of the Cleanup that removed outDir in this run

vars == <<api, notest, design, genfiles, pc, err, retFiles, dirExists,
          oldFiles, newFiles, locked, watcher, run, started, active, returned,
          handed, cleaned, preDir, signalled, written, prevOut, imports,
          mount, removedBy>>

-----------------------------------------------------------------------------
(* Values *)

NoErr == "nil"
ErrMissingAPI == "missing API definition"
ErrMkdir == "mkdir failed"

OutDir == "app"
StaleFile == "stale.go"

Writers == <<"contexts", "controllers", "security", "hrefs",
             "media_types", "user_types", "tests">>

WriterSet == {Writers[i] : i \in 1..Len(Writers)}

\* filepath.Join(g.outDir, "<artifact>.go") of each writer
FileOf(w) ==
    CASE w = "contexts"    -> "contexts.go"
      [] w = "controllers" -> "controllers.go"
      [] w = "security"    -> "security.go"
      [] w = "hrefs"       -> "hrefs.go"
      [] w = "media_types" -> "media_types.go"
      [] w = "user_types"  -> "user_types.go"
      [] w = "tests"       -> "test"

ExecErr(w) == w \o ": execute failed"
FormatErr(w) == w \o ": format failed"
EncodersErr == "controllers: no known encoder"

Range(s) == {s[i] : i \in 1..Len(s)}

\* the zero value of the payload type Collection
ZeroCollection == <<>>

\* goa.ContextRequest(ctx).Payload: nil, or the payload the unmarshaler
\* decoded
NoRawPayload == [present |-> FALSE, value |-> ZeroCollection]
RawPayload(v) == [present |-> TRUE, value |-> v]

\* the payloads a request may carry
Collections == {ZeroCollection, <<1>>, <<2, 1>>}

ErrContext == "invalid request"
ErrMissingPayload == "missing payload"
ErrAction == "action failed"

\* no request is being served
NoRequest ==
    [pc |-> "idle", resource |-> 0, index |-> 0, raw |-> NoRawPayload,
     payload |-> ZeroCollection, result |-> "none", called |-> FALSE]

-----------------------------------------------------------------------------
(* Identifier derivation.  Names are sequences of characters. *)

Separators == {"_", "-"}

Upper(c) ==
    CASE c = "g" -> "G"
      [] c = "w" -> "W"
      [] c = "f" -> "F"
      [] OTHER   -> c

RECURSIVE GoifyFrom(_, _, _)
GoifyFrom(name, i, cap) ==
    IF i > Len(name) THEN <<>>
    ELSE IF name[i] \in Separators THEN GoifyFrom(name, i + 1, TRUE)
    ELSE <<(IF cap THEN Upper(name[i]) ELSE name[i])>>
             \o GoifyFrom(name, i + 1, FALSE)

\* codegen.Goify(name, firstUpper)
Goify(name, firstUpper) == GoifyFrom(name, 1, firstUpper)

\* generator.go:123: the context identifier the contexts writer derives for
\* action a while iterating resource r; the resource name is read through
\* a.Parent
ContextName(a, r) ==
    Goify(a.Name, TRUE) \o Goify(a.Parent, TRUE) \o <<"Context">>

\* a name change a slip in the derivation would make: the first letter is
\* left as it is
ControllerContextNameLower(a, r) ==
    Goify(a.Name, FALSE) \o Goify(r.Name, TRUE) \o <<"Context">>

\* generator.go:214: the context identifier the controllers writer derives
\* for action a of resource r
ControllerContextName(a, r) ==
    Goify(a.Name, TRUE) \o Goify(r.Name, TRUE) \o <<"Context">>

\* generator.go:215
UnmarshalName(a, r) ==
    <<"unmarshal">> \o Goify(a.Name, TRUE) \o Goify(r.Name, TRUE)
        \o <<"Payload">>


-----------------------------------------------------------------------------
(* API definitions handed to Generate *)

\* a response definition; Responses of an action is a map from response
\* names to definitions
Response(status) == [Status |-> status]

NoPayload == "none"

\* an action with payload type p (NoPayload when none is declared)
ActionOf(name, p, optional, responses) ==
    [Name            |-> name,
     Parent          |-> <<>>,
     Payload         |-> p,
     PayloadOptional |-> optional,
     Responses       |-> responses]

\* generator_test.go:152-160: action without payload, one response "ok"
Action(name) == ActionOf(name, NoPayload, FALSE, [ok |-> Response(200)])

\* a resource that refers to the media type with identifier mt ("" when it
\* names none); Parent of each of its actions is the resource
\* (generator_test.go:155, 161)
ResourceOf(name, actions, fileServers, mt) ==
    [Name        |-> name,
     Actions     |-> [j \in 1..Len(actions) |->
                        [actions[j] EXCEPT !.Parent = name]],
     FileServers |-> fileServers,
     MediaType   |-> mt]

Resource(name, actions, fileServers) ==
    ResourceOf(name, actions, fileServers, "")

\* an encoding definition of api.Produces or api.Consumes
Encoding(mime, path) == [MIME |-> mime, PackagePath |-> path]

MediaType(id, builtin, kind) ==
    [Identifier |-> id, BuiltIn |-> builtin, Kind |-> kind]

APIDefinition(resources, schemes, mediaTypes, userTypes, produces, consumes) ==
    [isNil           |-> FALSE,
     Resources       |-> resources,
     SecuritySchemes |-> schemes,
     MediaTypes      |-> mediaTypes,
     UserTypes       |-> userTypes,
     Produces        |-> produces,
     Consumes        |-> consumes]

\* a nil *design.APIDefinition
NilAPI ==
    [isNil           |-> TRUE,
     Resources       |-> <<>>,
     SecuritySchemes |-> <<>>,
     MediaTypes      |-> <<>>,
     UserTypes       |-> <<>>,
     Produces        |-> <<>>,
     Consumes        |-> <<>>]

\* generator_test.go "with a dummy API"
DummyAPI == APIDefinition(<<>>, <<>>, <<>>, <<>>, <<>>, <<>>)

WidgetMT == MediaType("vnd.w", FALSE, "string")

\* generator_test.go "with a simple API": resource Widget, action get
SimpleAPI ==
    APIDefinition(<<ResourceOf(<<"W">>, <<Action(<<"g">>)>>, <<>>, "vnd.w")>>,
                  <<>>, <<WidgetMT>>, <<>>, <<>>, <<>>)

GoaPath == "github.com/goadesign/goa"

JSONEncoding == Encoding("application/json", GoaPath)
BincEncoding == Encoding("application/binc", "github.com/goadesign/encoding/binc")
MsgpackEncoding ==
    Encoding("application/msgpack", "github.com/goadesign/encoding/msgpack")
YAMLEncoding == Encoding("application/yaml", "gopkg.in/yaml.v2")

\* generator_test.go "with a slice payload": action get declares the payload
\* Collection
PayloadAPI ==
    APIDefinition(<<ResourceOf(<<"W">>,
                               <<ActionOf(<<"g">>, "Collection", FALSE,
                                          [ok |-> Response(200)])>>,
                               <<>>, "vnd.w")>>,
                  <<>>, <<WidgetMT>>, <<>>,
                  <<YAMLEncoding, JSONEncoding, BincEncoding>>,
                  <<MsgpackEncoding, BincEncoding>>)

\* generator_test.go "with a optional payload": the same payload, optional;
\* the encodings of PayloadAPI declared in another order
OptionalAPI ==
    APIDefinition(<<ResourceOf(<<"W">>,
                               <<ActionOf(<<"g">>, "Collection", TRUE,
                                          [ok |-> Response(200)])>>,
                               <<>>, "vnd.w")>>,
                  <<>>, <<WidgetMT>>, <<>>,
                  <<BincEncoding, JSONEncoding, YAMLEncoding>>,
                  <<BincEncoding, MsgpackEncoding>>)

\* a resource that only serves files, a resource with neither actions nor
\* file servers, and a resource whose action upgrades the connection (101);
\* a built-in media type, an array media type and a user type
FilesAPI ==
    APIDefinition(<<ResourceOf(<<"f">>, <<>>, <<"/public">>, "vnd.none"),
                    ResourceOf(<<"g">>, <<>>, <<>>, ""),
                    ResourceOf(<<"w">>,
                               <<ActionOf(<<"g", "_", "w">>, NoPayload, FALSE,
                                          [ok       |-> Response(200),
                                           switch   |-> Response(101),
                                           notfound |-> Response(404)])>>,
                               <<>>, "vnd.list")>>,
                  <<>>,
                  <<MediaType("vnd.goa.error", TRUE, "object"),
                    MediaType("vnd.list", FALSE, "array"),
                    WidgetMT>>,
                  <<"id">>,
                  <<JSONEncoding>>, <<JSONEncoding>>)

\* two resources whose names differ only in casing, each with action get
CollideAPI ==
    APIDefinition(<<Resource(<<"W">>, <<Action(<<"g">>)>>, <<>>),
                    Resource(<<"w">>, <<Action(<<"g">>)>>, <<>>)>>,
                  <<>>, <<WidgetMT>>, <<>>, <<>>, <<>>)

\* a resource with two actions, a security scheme, a user type, an encoder
SecureAPI ==
    APIDefinition(<<Resource(<<"w", "_", "f">>,
                             <<Action(<<"g">>), Action(<<"g", "-", "w">>)>>,
                             <<>>)>>,
                  <<"jwt">>,
                  <<MediaType("vnd.f", FALSE, "object")>>,
                  <<"Collection">>,
                  <<Encoding("application/json", "encoding/json")>>, <<>>)

\* another design registered in the package-level design.Design
OtherDesign ==
    APIDefinition(<<>>, <<"basic">>, <<>>, <<>>, <<>>, <<>>)

APIs == {NilAPI, DummyAPI, SimpleAPI, CollideAPI, SecureAPI, PayloadAPI,
         OptionalAPI, FilesAPI}

\* design.Design is the argument itself when Generate is entered through the
\* package-level Generate(), and any other design otherwise
Designs(a) == {IF a.isNil THEN DummyAPI ELSE a, OtherDesign}

\* the directory contents a run may find: nothing, or a directory holding
\* a file generated or left there earlier
InitialDirs == {[exists |-> FALSE, files |-> {}],
                [exists |-> TRUE, files |-> {StaleFile}]}

\* a file that resists removal is a file that is there
Locks(d) == IF StaleFile \in d.files THEN BOOLEAN ELSE {FALSE}

-----------------------------------------------------------------------------
(* Iteration over the design *)

RECURSIVE Flatten(_)
Flatten(ss) == IF ss = <<>> THEN <<>> ELSE Head(ss) \o Flatten(Tail(ss))

\* api.IterateResources / r.IterateActions: every action, resource by resource
ActionPairs(a) ==
    Flatten([i \in 1..Len(a.Resources) |->
               [j \in 1..Len(a.Resources[i].Actions) |->
                   [res |-> a.Resources[i], act |-> a.Resources[i].Actions[j]]]])

\* the responses are handed over as they are declared
AllResponses(rs) == rs

\* generator.go:133-138: a new map holding the responses whose status is
\* not 101
Non101(rs) ==
    [k \in {n \in DOMAIN rs : rs[n].Status # 101} |-> rs[k]]

\* generator.go:139-151: the ContextTemplateData of action act of resource res
ContextData(act, res) ==
    [Name         |-> ContextName(act, res),
     ResourceName |-> res.Name,
     ActionName   |-> act.Name,
     Payload      |-> act.Payload,
     Responses    |-> Non101(act.Responses)]

\* generator.go:121-153: one context unit per action
ContextUnits(a) ==
    [k \in 1..Len(ActionPairs(a)) |->
        ContextData(ActionPairs(a)[k].act, ActionPairs(a)[k].res)]

\* every action is handed over as one whose payload may be left out
AlwaysOptional(act) == TRUE

\* every action is handed over as one whose payload is required
NeverOptional(act) == FALSE

\* generator.go:222
PayloadOptionalOf(act) == act.PayloadOptional

\* generator.go:214-224: the entry appended to data.Actions for action act
\* of resource res
ControllerAction(act, res) ==
    [Name            |-> Goify(act.Name, TRUE),
     Context         |-> ControllerContextName(act, res),
     Unmarshal       |-> UnmarshalName(act, res),
     Payload         |-> act.Payload,
     PayloadOptional |-> PayloadOptionalOf(act)]

\* generator.go:207-227: the ControllerTemplateData of resource res
ControllerData(res) ==
    [Resource    |-> Goify(res.Name, TRUE),
     FileServers |-> res.FileServers,
     Actions     |-> [j \in 1..Len(res.Actions) |->
                        ControllerAction(res.Actions[j], res)]]

\* only the resources with actions get a controller
ControllerUnitsActionsOnly(a) ==
    LET keep == SelectSeq(a.Resources, LAMBDA r : Len(r.Actions) > 0)
    IN  [i \in 1..Len(keep) |-> ControllerData(keep[i])]

\* generator.go:206-238: one controller unit per resource with actions or
\* file servers
ControllerUnits(a) ==
    LET keep == SelectSeq(a.Resources,
                          LAMBDA r : Len(r.Actions) > 0 \/ Len(r.FileServers) > 0)
    IN  [i \in 1..Len(keep) |-> ControllerData(keep[i])]

\* generator.go:273: the schemes handed to the security writer
SecurityUnits(a, d) == d.SecuritySchemes

\* a nil *design.MediaTypeDefinition
NilMediaType == [Identifier |-> "", BuiltIn |-> FALSE, Kind |-> "nil"]

\* api.MediaTypeWithIdentifier(id): the media type registered under id, nil
\* when there is none
MediaTypeWithIdentifier(a, id) ==
    IF \E i \in 1..Len(a.MediaTypes) : a.MediaTypes[i].Identifier = id
    THEN a.MediaTypes[CHOOSE i \in 1..Len(a.MediaTypes) :
                          a.MediaTypes[i].Identifier = id]
    ELSE NilMediaType

\* every resource is given the plain text identifier and no type
ResourceDataPlain(a, res) ==
    [Name       |-> Goify(res.Name, TRUE),
     Identifier |-> "text/plain",
     Type       |-> NilMediaType]

\* generator.go:293-307: the ResourceData of resource res
ResourceData(a, res) ==
    LET m == MediaTypeWithIdentifier(a, res.MediaType)
    IN  [Name       |-> Goify(res.Name, TRUE),
         Identifier |-> IF m # NilMediaType THEN m.Identifier ELSE "text/plain",
         Type       |-> m]

\* generator.go:292-309: one href unit per resource
HrefUnits(a) == [i \in 1..Len(a.Resources) |-> ResourceData(a, a.Resources[i])]

\* the built-in media types are not skipped
MediaTypeUnitsWithBuiltIn(a) ==
    SelectSeq(a.MediaTypes, LAMBDA m : m.Kind \in {"object", "array"})

\* generator.go:333-341: one unit per media type that is not built in and
\* whose type is an object or an array
MediaTypeUnits(a) ==
    SelectSeq(a.MediaTypes,
              LAMBDA m : ~m.BuiltIn /\ m.Kind \in {"object", "array"})

\* generator.go:364-366: one unit per user type
UserTypeUnits(a) == a.UserTypes

\* BuildEncoders(defs, encoder): one entry per encoding definition, with the
\* package that implements it
BuildEncoders(defs) == [i \in 1..Len(defs) |-> [PackagePath |-> defs[i].PackagePath]]

\* generator.go:170-176
FixedImports ==
    <<"net/http", "fmt", "golang.org/x/net/context", GoaPath,
      "github.com/goadesign/goa/cors">>

\* generator.go:185-191: the keys of encoderImports
EncoderImports(a) ==
    {BuildEncoders(a.Produces)[i].PackagePath : i \in 1..Len(a.Produces)}
        \cup {BuildEncoders(a.Consumes)[i].PackagePath : i \in 1..Len(a.Consumes)}

\* generator.go:193: the orders in which "range encoderImports" may visit
\* the keys
RangeOrders(keys) ==
    {o \in [1..Cardinality(keys) -> keys] :
        \A i, j \in 1..Cardinality(keys) : o[i] = o[j] => i = j}

\* the package paths of the model in the order of Go's string comparison
StringOrder ==
    <<"encoding/json", "github.com/goadesign/encoding/binc",
      "github.com/goadesign/encoding/msgpack", GoaPath, "gopkg.in/yaml.v2">>

\* Go's s < t on strings
StringLess(x, y) ==
    \E i, j \in 1..Len(StringOrder) :
        StringOrder[i] = x /\ StringOrder[j] = y /\ i < j

RECURSIVE InsertSorted(_, _)
InsertSorted(x, sorted) ==
    IF sorted = <<>> THEN <<x>>
    ELSE IF StringLess(Head(sorted), x)
         THEN <<Head(sorted)>> \o InsertSorted(x, Tail(sorted))
         ELSE <<x>> \o sorted

\* the paths are left in the order the map was walked
Unsorted(paths) == paths

\* generator.go:198, sort.Strings(packagePaths)
RECURSIVE SortStrings(_)
SortStrings(paths) ==
    IF paths = <<>> THEN <<>>
    ELSE InsertSorted(Head(paths), SortStrings(Tail(paths)))

\* generator.go:192-201: the import list handed to ctlWr.WriteHeader when the
\* map is walked in order o
ControllerImports(o) ==
    FixedImports \o SortStrings(SelectSeq(o, LAMBDA path : path # GoaPath))

\* the units writer w's Execute is called with, in order
Units(w, a, d) ==
    CASE w = "contexts"    -> ContextUnits(a)
      [] w = "controllers" -> ControllerUnits(a)
      [] w = "security"    -> SecurityUnits(a, d)
      [] w = "hrefs"       -> HrefUnits(a)
      [] w = "media_types" -> MediaTypeUnits(a)
      [] w = "user_types"  -> UserTypeUnits(a)
      [] w = "tests"       -> [i \in 1..Len(a.Resources) |-> a.Resources[i].Name]

TestFiles == <<"test/r1_test.go", "test/r2_test.go", "test/r3_test.go">>

-----------------------------------------------------------------------------
(* The file system under Generator.outDir *)

Dir(e, o, n) == [exists |-> e, old |-> o, new |-> n]

\* os.RemoveAll(g.outDir): the directory is gone, or the file found there
\* cannot be removed and the call fails after removing what it can; the
\* caller ignores the error either way
RemoveAll(d, l) ==
    IF d.exists /\ l /\ StaleFile \in d.old
    THEN Dir(TRUE, {StaleFile}, {})
    ELSE Dir(FALSE, {}, {})

\* creating file f under outDir in this run
CreateFile(d, f) == Dir(d.exists, d.old \ {f}, d.new \cup {f})

CurDir == Dir(dirExists, oldFiles, newFiles)

SetDir(d) ==
    /\ dirExists' = d.exists
    /\ oldFiles' = d.old
    /\ newFiles' = d.new

Present(f) == dirExists /\ f \in oldFiles \cup newFiles

-----------------------------------------------------------------------------
(* Generator.Generate, generator.go:46-90 *)

\* generator.go:65-89: the position Generate moves to once writer w has
\* returned nil
NextCall(w, nt) ==
    CASE w = "contexts"    -> "ctl_new"
      [] w = "controllers" -> "sec_new"
      [] w = "security"    -> "href_new"
      [] w = "hrefs"       -> "mt_new"
      [] w = "media_types" -> "ut_new"
      [] w = "user_types"  -> IF ~nt THEN "test_run" ELSE "return"
      [] w = "tests"       -> "return"

\* Generate goes on to the next writer whatever the writer returned
AfterWriterIgnoringError(w, e, nt) == NextCall(w, nt)

\* generator.go:65-87: "if err := g.generateX(api); err != nil { return nil, err }"
AfterWriter(w, e, nt) == IF e # NoErr THEN "deferred" ELSE NextCall(w, nt)

\* the deferred function never calls Cleanup
DeferredNeverCleans(e) == FALSE

\* generator.go:53-57: the deferred function calls Cleanup iff err is set
DeferredCleans(e) == e # NoErr

\* Cleanup goes on to remove the directory whatever the file list holds
CleanupNeverSkips(gf) == FALSE

\* generator.go:94-96: Cleanup returns at once iff no file is recorded
CleanupSkips(gf) == Len(gf) = 0

\* writer w is called: Generate enters g.generateX
Enter(w) ==
    /\ started' = Append(started, w)
    /\ active' = active \cup {w}

\* writer w returns e to Generate, which returns (nil, e) or goes on
Outcome(w, e) ==
    /\ returned' = [returned EXCEPT ![w] = e]
    /\ pc' = AfterWriter(w, e, notest)
    /\ IF e # NoErr
       THEN err' = e /\ retFiles' = <<>>
       ELSE UNCHANGED <<err, retFiles>>

\* a writer called earlier returns e
Leave(w, e) ==
    /\ Outcome(w, e)
    /\ active' = active \ {w}
    /\ UNCHANGED started

\* a writer is called and returns e in the same step
EnterAndLeave(w, e) ==
    /\ Outcome(w, e)
    /\ started' = Append(started, w)
    /\ UNCHANGED active

\* "if err != nil { panic(err) }" after NewXWriter: the deferred function
\* runs with err still nil, so Cleanup is not called
Panic == pc' = "panicked"

Inputs == <<api, notest, locked>>
Kept == <<preDir, prevOut, run, imports, mount, removedBy>>
History == <<preDir, prevOut, run, imports, mount, removedBy, written>>
Record == <<preDir, prevOut, run, imports, mount, written>>
FS == <<dirExists, oldFiles, newFiles>>
Calls == <<started, active, returned>>

\* g.Generate(api) is entered: the bookkeeping of a new run
Begin ==
    /\ run' = run + 1
    /\ pc' = "entry"
    /\ \E d \in Designs(api) : design' = d
    /\ prevOut' = [valid |-> pc = "returned", files |-> retFiles, err |-> err,
                   handed |-> handed]
    /\ preDir' = [exists |-> dirExists, files |-> oldFiles \cup newFiles]
    /\ oldFiles' = oldFiles \cup newFiles
    /\ newFiles' = {}
    /\ err' = NoErr
    /\ retFiles' = <<>>
    /\ started' = <<>>
    /\ active' = {}
    /\ returned' = [w \in WriterSet |-> "none"]
    /\ handed' = [w \in WriterSet |-> <<>>]
    /\ cleaned' = FALSE
    /\ signalled' = FALSE
    /\ written' = <<>>
    /\ imports' = <<>>
    /\ mount' = NoRequest
    /\ removedBy' = "none"
    /\ UNCHANGED <<Inputs, genfiles, dirExists, watcher>>

\* a caller calls g.Generate(api) on a new Generator
Call ==
    /\ pc = "idle"
    /\ Begin

\* the caller regenerates: after a run that returned a nil error it calls
\* g.Generate(api) again with the same argument and options
CallAgain ==
    /\ pc = "returned"
    /\ err = NoErr
    /\ run < MaxRuns
    /\ Begin

\* the argument is taken to be an API definition whatever it is
NeverMissing(a) == FALSE

\* generator.go:47: api == nil
MissingAPI(a) == a.isNil

\* generator.go:47-57
GenerateEntry ==
    /\ pc = "entry"
    /\ IF MissingAPI(api)
       THEN /\ err' = ErrMissingAPI
            /\ retFiles' = <<>>
            /\ pc' = "returned"
            /\ UNCHANGED watcher
       ELSE /\ watcher' = [watcher EXCEPT ![run] = "listening"]
            /\ pc' = "removeAll"
            /\ UNCHANGED <<err, retFiles>>
    /\ UNCHANGED <<Inputs, design, genfiles, FS, Calls, handed, cleaned,
                   signalled, History>>

\* generator.go:59
RemoveOutDir ==
    /\ pc = "removeAll"
    /\ SetDir(RemoveAll(CurDir, locked))
    /\ pc' = "mkdirAll"
    /\ UNCHANGED <<Inputs, design, genfiles, err, retFiles, watcher, Calls,
                   handed, cleaned, signalled, History>>

\* generator.go:61-63
MkdirOutDir ==
    /\ pc = "mkdirAll"
    /\ \/ /\ dirExists' = TRUE
          /\ pc' = "setGenfiles"
          /\ UNCHANGED <<err, retFiles>>
       \/ /\ ~dirExists
          /\ err' = ErrMkdir
          /\ retFiles' = <<>>
          /\ pc' = "deferred"
          /\ UNCHANGED dirExists
    /\ UNCHANGED <<Inputs, design, genfiles, oldFiles, newFiles, watcher,
                   Calls, handed, cleaned, signalled, History>>

\* generator.go:64
SetGenfiles ==
    /\ pc = "setGenfiles"
    /\ genfiles' = <<OutDir>>
    /\ pc' = "ctx_new"
    /\ UNCHANGED <<Inputs, design, err, retFiles, FS, watcher, Calls, handed,
                   cleaned, signalled, History>>

\* generator.go:89
Return ==
    /\ pc = "return"
    /\ retFiles' = genfiles
    /\ pc' = "deferred"
    /\ UNCHANGED <<Inputs, design, genfiles, err, FS, watcher, Calls, handed,
                   cleaned, signalled, History>>

\* generator.go:53-57
Deferred ==
    /\ pc = "deferred"
    /\ IF DeferredCleans(err)
       THEN cleaned' = TRUE /\ pc' = "cleanup"
       ELSE pc' = "returned" /\ UNCHANGED cleaned
    /\ UNCHANGED <<Inputs, design, genfiles, err, retFiles, FS, watcher,
                   Calls, handed, signalled, History>>

\* generator.go:97: who removed the directory, once os.RemoveAll called by
\* who has run; the first caller that removed it in a run is kept
RemovedBy(who) ==
    IF removedBy = "none" /\ dirExists /\ ~RemoveAll(CurDir, locked).exists
    THEN who
    ELSE removedBy

\* generator.go:93-97, called by the deferred function
CleanupRemove ==
    /\ pc = "cleanup"
    /\ IF CleanupSkips(genfiles)
       THEN pc' = "returned" /\ UNCHANGED <<FS, removedBy>>
       ELSE /\ pc' = "cleanup_clear"
            /\ SetDir(RemoveAll(CurDir, locked))
            /\ removedBy' = RemovedBy("deferred")
    /\ UNCHANGED <<Inputs, design, genfiles, err, retFiles, watcher, Calls,
                   handed, cleaned, signalled, Record>>

\* generator.go:98, called by the deferred function
CleanupClear ==
    /\ pc = "cleanup_clear"
    /\ genfiles' = <<>>
    /\ pc' = "returned"
    /\ UNCHANGED <<Inputs, design, err, retFiles, FS, watcher, Calls, handed,
                   cleaned, signalled, History>>

-----------------------------------------------------------------------------
(* The artifact writers *)

\* NewXWriter(file) at the head of every generateX: the file is created, or
\* the error makes generateX panic
NewWriter(w, next) ==
    /\ Enter(w)
    /\ \/ /\ dirExists
          /\ SetDir(CreateFile(CurDir, FileOf(w)))
          /\ written' = Append(written, FileOf(w))
          /\ pc' = next
       \/ /\ Panic
          /\ UNCHANGED <<FS, written>>
    /\ UNCHANGED <<Inputs, design, genfiles, err, retFiles, watcher, returned,
                   handed, cleaned, signalled, Kept>>

\* the iteration that calls Execute once per unit and stops at the first
\* error: the units handed over and the error returned
Iterations(u, w) ==
    {[given |-> u, e |-> NoErr]}
        \cup {[given |-> SubSeq(u, 1, k), e |-> ExecErr(w)] : k \in 1..Len(u)}

\* xWr.FormatCode() as the last statement of generateX
FormatCode(w, at) ==
    /\ pc = at
    /\ \/ Present(FileOf(w)) /\ Leave(w, NoErr)
       \/ Leave(w, FormatErr(w))
    /\ UNCHANGED <<Inputs, design, genfiles, FS, watcher, handed, cleaned,
                   signalled, History>>

\* generator.go:104-108
ctxNew == pc = "ctx_new" /\ NewWriter("contexts", "ctx_exec")

\* generator.go:119-157
ctxExec ==
    /\ pc = "ctx_exec"
    /\ genfiles' = Append(genfiles, FileOf("contexts"))
    /\ \E it \in Iterations(Units("contexts", api, design), "contexts") :
          /\ handed' = [handed EXCEPT !["contexts"] = it.given]
          /\ IF it.e = NoErr
             THEN pc' = "ctx_format" /\ UNCHANGED <<Calls, err, retFiles>>
             ELSE Leave("contexts", it.e)
    /\ UNCHANGED <<Inputs, design, FS, watcher, cleaned, signalled, History>>

\* generator.go:158
ctxFormat == FormatCode("contexts", "ctx_format")

\* generator.go:164-168
ctlNew == pc = "ctl_new" /\ NewWriter("controllers", "ctl_encoders")

\* generator.go:177-184
ctlEncoders ==
    /\ pc = "ctl_encoders"
    /\ \/ pc' = "ctl_exec" /\ UNCHANGED <<Calls, err, retFiles>>
       \/ /\ Len(api.Produces) + Len(api.Consumes) > 0
          /\ Leave("controllers", EncodersErr)
    /\ UNCHANGED <<Inputs, design, genfiles, FS, watcher, handed, cleaned,
                   signalled, History>>

\* generator.go:185-245
ctlExec ==
    /\ pc = "ctl_exec"
    /\ \E o \in RangeOrders(EncoderImports(api)) :
          imports' = ControllerImports(o)
    /\ genfiles' = Append(genfiles, FileOf("controllers"))
    /\ handed' = [handed EXCEPT
                    !["controllers"] = Units("controllers", api, design)]
    /\ \/ pc' = "ctl_format" /\ UNCHANGED <<Calls, err, retFiles>>
       \/ Leave("controllers", ExecErr("controllers"))
    /\ UNCHANGED <<Inputs, design, FS, watcher, cleaned, signalled, preDir,
                   prevOut, run, mount, removedBy, written>>

\* generator.go:246
ctlFormat == FormatCode("controllers", "ctl_format")

\* generator.go:252-260
secNew ==
    /\ pc = "sec_new"
    /\ IF Len(api.SecuritySchemes) = 0
       THEN /\ EnterAndLeave("security", NoErr)
            /\ UNCHANGED <<Inputs, design, genfiles, FS, watcher, handed,
                           cleaned, signalled, History>>
       ELSE NewWriter("security", "sec_exec")

\* generator.go:262-275
secExec ==
    /\ pc = "sec_exec"
    /\ genfiles' = Append(genfiles, FileOf("security"))
    /\ handed' = [handed EXCEPT
                    !["security"] = Units("security", api, design)]
    /\ \/ pc' = "sec_format" /\ UNCHANGED <<Calls, err, retFiles>>
       \/ Leave("security", ExecErr("security"))
    /\ UNCHANGED <<Inputs, design, FS, watcher, cleaned, signalled, History>>

\* generator.go:277
secFormat == FormatCode("security", "sec_format")

\* generateHrefs, generateMediaTypes, generateUserTypes after NewXWriter:
\* the iteration, then the file is recorded, then the error is looked at
IterateThenRecord(w, at, next) ==
    /\ pc = at
    /\ genfiles' = Append(genfiles, FileOf(w))
    /\ \E it \in Iterations(Units(w, api, design), w) :
          /\ handed' = [handed EXCEPT ![w] = it.given]
          /\ IF it.e = NoErr
             THEN pc' = next /\ UNCHANGED <<Calls, err, retFiles>>
             ELSE Leave(w, it.e)
    /\ UNCHANGED <<Inputs, design, FS, watcher, cleaned, signalled, History>>

\* generator.go:282-286
hrefNew == pc = "href_new" /\ NewWriter("hrefs", "href_exec")

\* generator.go:287-313
hrefExec == IterateThenRecord("hrefs", "href_exec", "href_format")

\* generator.go:314
hrefFormat == FormatCode("hrefs", "href_format")

\* generator.go:320-324
mtNew == pc = "mt_new" /\ NewWriter("media_types", "mt_exec")

\* generator.go:325-345
mtExec == IterateThenRecord("media_types", "mt_exec", "mt_format")

\* generator.go:346
mtFormat == FormatCode("media_types", "mt_format")

\* generator.go:352-356
utNew == pc = "ut_new" /\ NewWriter("user_types", "ut_exec")

\* generator.go:357-370
utExec == IterateThenRecord("user_types", "ut_exec", "ut_format")

\* generator.go:371
utFormat == FormatCode("user_types", "ut_format")

\* the entries generateResourceTest records: the test directory and one test
\* file per resource, none for an API without resources
TestEntries(a) ==
    IF Len(a.Resources) = 0 THEN <<>>
    ELSE <<FileOf("tests")>> \o SubSeq(TestFiles, 1, Len(a.Resources))

\* generator.go:83-87, g.generateResourceTest(api)
testRun ==
    /\ pc = "test_run"
    /\ \/ /\ dirExists \/ Len(api.Resources) = 0
          /\ genfiles' = genfiles \o TestEntries(api)
          /\ SetDir(Dir(dirExists, oldFiles \ Range(TestEntries(api)),
                        newFiles \cup Range(TestEntries(api))))
          /\ written' = written \o TestEntries(api)
          /\ handed' = [handed EXCEPT !["tests"] = Units("tests", api, design)]
          /\ EnterAndLeave("tests", NoErr)
       \/ /\ Len(api.Resources) > 0
          /\ EnterAndLeave("tests", ExecErr("tests"))
          /\ UNCHANGED <<genfiles, FS, handed, written>>
    /\ UNCHANGED <<Inputs, design, watcher, cleaned, signalled, Kept>>

-----------------------------------------------------------------------------
(* The interrupt watcher: go utils.Catch(nil, func() { g.Cleanup() }) *)

\* a process-interruption signal is delivered to every watcher listening
Signal ==
    /\ pc # "panicked"
    /\ \E i \in 1..MaxRuns : watcher[i] = "listening"
    /\ watcher' = [i \in 1..MaxRuns |->
                     IF watcher[i] = "listening" THEN "cleanup" ELSE watcher[i]]
    /\ signalled' = (signalled \/ pc # "returned")
    /\ UNCHANGED <<Inputs, design, genfiles, pc, err, retFiles, FS, Calls,
                   handed, cleaned, History>>

\* generator.go:93-97, called by watcher i
WatcherCleanupRemove(i) ==
    /\ pc # "panicked"
    /\ watcher[i] = "cleanup"
    /\ IF CleanupSkips(genfiles)
       THEN /\ watcher' = [watcher EXCEPT ![i] = "exited"]
            /\ UNCHANGED <<FS, removedBy>>
       ELSE /\ watcher' = [watcher EXCEPT ![i] = "clear"]
            /\ SetDir(RemoveAll(CurDir, locked))
            /\ removedBy' = RemovedBy("watcher")
    /\ UNCHANGED <<Inputs, design, genfiles, pc, err, retFiles, Calls, handed,
                   cleaned, signalled, Record>>

\* generator.go:98, called by watcher i
WatcherCleanupClear(i) ==
    /\ pc # "panicked"
    /\ watcher[i] = "clear"
    /\ genfiles' = <<>>
    /\ watcher' = [watcher EXCEPT ![i] = "exited"]
    /\ UNCHANGED <<Inputs, design, pc, err, retFiles, FS, Calls, handed,
                   cleaned, signalled, History>>

-----------------------------------------------------------------------------
(* A request served by the handler that MountXController registers for an  *)
(* action, as the controllers writer emits it into controllers.go          *)

Generation == <<api, notest, design, genfiles, pc, err, retFiles, dirExists,
                oldFiles, newFiles, locked, watcher, run, started, active,
                returned, handed, cleaned, preDir, signalled, written,
                prevOut, imports, removedBy>>

\* generator.go:231-236: the position in controllersData of the unit of the
\* i-th resource, a resource with actions
UnitIndex(a, i) ==
    Cardinality({h \in 1..i : \/ Len(a.Resources[h].Actions) > 0
                              \/ Len(a.Resources[h].FileServers) > 0})

\* the action of the design the request is routed to
Routed == api.Resources[mount.resource].Actions[mount.index]

\* the entry of data.Actions the handler serving the request was emitted from
Emitted ==
    handed["controllers"][UnitIndex(api, mount.resource)].Actions[mount.index]

\* the handler of an action with a payload holds the block that reads
\* goa.ContextRequest(ctx).Payload
HasPayloadBlock(act) == act.Payload # NoPayload

\* the block has the else branch that returns the missing payload error
\* unless the payload is optional
RejectsMissing(act) == ~act.PayloadOptional

\* the payloads the unmarshaler may have stored for a request to act
RawPayloads(act) ==
    IF act.Payload = NoPayload THEN {NoRawPayload}
    ELSE {NoRawPayload} \cup {RawPayload(v) : v \in Collections}

\* a request arrives for an action of a mounted controller
ServeRequest ==
    /\ pc = "returned"
    /\ err = NoErr
    /\ Present(FileOf("controllers"))
    /\ mount.pc \in {"idle", "done"}
    /\ \E i \in 1..Len(api.Resources) :
       \E j \in 1..Len(api.Resources[i].Actions) :
       \E raw \in RawPayloads(api.Resources[i].Actions[j]) :
          mount' = [pc |-> "new_context", resource |-> i, index |-> j,
                    raw |-> raw, payload |-> ZeroCollection,
                    result |-> "none", called |-> FALSE]
    /\ UNCHANGED Generation

\* generator_test.go:384-387: rctx, err := NewGetWidgetContext(ctx, service)
ServeNewContext ==
    /\ mount.pc = "new_context"
    /\ \/ mount' = [mount EXCEPT !.pc = "payload"]
       \/ mount' = [mount EXCEPT !.pc = "done", !.result = ErrContext]
    /\ UNCHANGED Generation

\* generator_test.go:388-392 and 421-423
ServePayload ==
    /\ mount.pc = "payload"
    /\ IF ~HasPayloadBlock(Emitted)
       THEN mount' = [mount EXCEPT !.pc = "action"]
       ELSE IF mount.raw.present
       THEN mount' = [mount EXCEPT !.pc = "action",
                                   !.payload = mount.raw.value]
       ELSE IF RejectsMissing(Emitted)
       THEN mount' = [mount EXCEPT !.pc = "done",
                                   !.result = ErrMissingPayload]
       ELSE mount' = [mount EXCEPT !.pc = "action"]
    /\ UNCHANGED Generation

\* generator_test.go:393: return ctrl.Get(rctx)
ServeAction ==
    /\ mount.pc = "action"
    /\ \E e \in {NoErr, ErrAction} :
          mount' = [mount EXCEPT !.pc = "done", !.result = e, !.called = TRUE]
    /\ UNCHANGED Generation

-----------------------------------------------------------------------------

Init ==
    /\ api \in APIs
    /\ notest \in BOOLEAN
    /\ design = (IF api.isNil THEN DummyAPI ELSE api)
    /\ genfiles = <<>>
    /\ pc = "idle"
    /\ err = NoErr
    /\ retFiles = <<>>
    /\ \E d \in InitialDirs :
          /\ dirExists = d.exists
          /\ oldFiles = d.files
          /\ preDir = d
          /\ locked \in Locks(d)
    /\ newFiles = {}
    /\ watcher = [i \in 1..MaxRuns |-> "none"]
    /\ run = 0
    /\ started = <<>>
    /\ active = {}
    /\ returned = [w \in WriterSet |-> "none"]
    /\ handed = [w \in WriterSet |-> <<>>]
    /\ cleaned = FALSE
    /\ signalled = FALSE
    /\ written = <<>>
    /\ imports = <<>>
    /\ mount = NoRequest
    /\ removedBy = "none"
    /\ prevOut = [valid |-> FALSE, files |-> <<>>, err |-> NoErr,
                  handed |-> [w \in WriterSet |-> <<>>]]

\* the goroutine that runs Generate
Generate ==
    \/ GenerateEntry
    \/ RemoveOutDir
    \/ MkdirOutDir
    \/ SetGenfiles
    \/ ctxNew \/ ctxExec \/ ctxFormat
    \/ ctlNew \/ ctlEncoders \/ ctlExec \/ ctlFormat
    \/ secNew \/ secExec \/ secFormat
    \/ hrefNew \/ hrefExec \/ hrefFormat
    \/ mtNew \/ mtExec \/ mtFormat
    \/ utNew \/ utExec \/ utFormat
    \/ testRun
    \/ Return
    \/ Deferred
    \/ CleanupRemove
    \/ CleanupClear

\* the goroutines that run utils.Catch
Watcher ==
    \/ Signal
    \/ \E i \in 1..MaxRuns : WatcherCleanupRemove(i)
    \/ \E i \in 1..MaxRuns : WatcherCleanupClear(i)

\* one call of Generate, with signals arriving at any moment
Next == Call \/ Generate \/ Watcher

Spec == Init /\ [][Next]_vars

\* repeated calls of Generate with the same argument and options, no signal
\* arriving
NextRegen == Call \/ CallAgain \/ Generate

SpecRegen == Init /\ [][NextRegen]_vars

\* the generated handlers
Serve == ServeRequest \/ ServeNewContext \/ ServePayload \/ ServeAction

\* one call of Generate no signal reaches, then requests served by the
\* generated controllers
NextServe == Call \/ Generate \/ Serve

SpecServe == Init /\ [][NextServe]_vars

-----------------------------------------------------------------------------
(* Properties *)

Failed(w) == returned[w] \notin {"none", NoErr}

LastStarted == started[Len(started)]

\* C1: the writers are called in the order contexts, controllers, security,
\* hrefs, media types, user types, resource tests; a writer is called only
\* after every writer called before it has returned nil; at most one writer
\* is active at any time; the resource tests writer is called only when
\* notest is false.
C1_WritersInOrder ==
    /\ \A i \in 1..Len(started) : started[i] = Writers[i]
    /\ \A i \in 1..(Len(started) - 1) :
          returned[started[i]] = NoErr /\ started[i] \notin active
    /\ Cardinality(active) <= 1
    /\ "tests" \in Range(started) => ~notest

\* C1 witness: a run in which all seven writers were called and returned
C1_AllWritersRan ==
    /\ pc = "returned"
    /\ Len(started) = Len(Writers)
    /\ \A w \in WriterSet : returned[w] = NoErr

\* C2: once a writer has returned an error, no later writer is called,
\* Generate's results are that same error and a nil file list, and Generate
\* does not return before its deferred function has called Cleanup.
C2_WriterErrorStopsRun ==
    \A w \in WriterSet :
        Failed(w) =>
            /\ LastStarted = w
            /\ err = returned[w]
            /\ retFiles = <<>>
            /\ pc \in {"deferred", "cleanup", "cleanup_clear", "returned"}
            /\ pc \in {"cleanup", "cleanup_clear", "returned"} => cleaned

\* C2 witness: the hrefs writer failed after three files were recorded, and
\* Generate has returned
C2_HrefsFailedAndReturned ==
    /\ pc = "returned"
    /\ Failed("hrefs")
    /\ cleaned
    /\ written = <<"contexts.go", "controllers.go", "hrefs.go">>

\* the run is over and did not succeed
RunFailed == pc = "panicked" \/ (pc = "returned" /\ err # NoErr)

\* the run is over and Generate returned a nil error
RunSucceeded == pc = "returned" /\ err = NoErr

DirNow == [exists |-> dirExists, files |-> oldFiles \cup newFiles]

NoDuplicates(s) == \A i, j \in 1..Len(s) : s[i] = s[j] => i = j

\* C3: after a run that failed, the output directory is absent or holds
\* exactly what it held when the run started.
C3_Atomicity ==
    RunFailed => (~dirExists \/ (DirNow = preDir /\ newFiles = {}))

\* C4: when Generate returns a nil error, the returned list is the output
\* directory followed by the files the writers of this run created, in the
\* order they were created, each once.
C4_ReturnedList ==
    RunSucceeded =>
        /\ retFiles = <<OutDir>> \o written
        /\ NoDuplicates(retFiles)

\* C5: after a run that returned a nil error, every file in the output
\* directory was written by this run.
C5_FullRebuild ==
    RunSucceeded => (dirExists => oldFiles = {})

\* C6: when a signal was delivered between the start and the return of
\* Generate and the watcher has finished handling it, the output directory
\* is absent once Generate has returned (nothing in the directory resisting
\* removal).
C6_InterruptRemovesDir ==
    (pc = "returned" /\ signalled /\ watcher[run] = "exited" /\ ~locked)
    => ~dirExists

\* C7: when creating or writing an artifact file failed, Generate returns an
\* error, its deferred function calls Cleanup and the output directory is
\* gone when control leaves Generate (nothing in the directory resisting
\* removal).
C7_IOFailureRollsBack ==
    (pc \in {"returned", "panicked"} /\ ~locked
        /\ (pc = "panicked" \/ \E w \in WriterSet : Failed(w)))
    => (pc = "returned" /\ err # NoErr /\ cleaned /\ ~dirExists)

\* C8: two runs with the same argument and options that both return a nil
\* error and that no signal reached return the same file list and hand the
\* same data to every writer.
C8_Determinism ==
    (RunSucceeded /\ prevOut.valid /\ prevOut.err = NoErr)
    => (retFiles = prevOut.files /\ handed = prevOut.handed)

\* two actions of different resources derive the same context identifier
Collides(a) ==
    \E i, j \in 1..Len(ActionPairs(a)) :
        /\ ActionPairs(a)[i].res # ActionPairs(a)[j].res
        /\ ContextName(ActionPairs(a)[i].act, ActionPairs(a)[i].res)
             = ContextName(ActionPairs(a)[j].act, ActionPairs(a)[j].res)

\* C9: for an API in which two actions of different resources derive the
\* same context identifier, no file is ever written and Generate never
\* returns a nil error.
C9_CollisionRejected ==
    Collides(api) => (written = <<>> /\ ~RunSucceeded)

\* C10: for the API without resources and security schemes, a run that
\* returns a nil error returns the output directory followed by contexts.go,
\* controllers.go, hrefs.go, media_types.go and user_types.go, and creates
\* no other file.
C10_DummySkeleton ==
    (api = DummyAPI /\ RunSucceeded) =>
        /\ retFiles = <<OutDir, "contexts.go", "controllers.go", "hrefs.go",
                        "media_types.go", "user_types.go">>
        /\ written = Tail(retFiles)

\* C11: security.go is created, and listed in the list a successful run
\* returns, exactly when the API handed to Generate declares a security
\* scheme, and the schemes handed to the security writer are the schemes of
\* that API.
C11_SecurityFromAPI ==
    /\ returned["security"] = NoErr =>
          (FileOf("security") \in Range(written)
              <=> Len(api.SecuritySchemes) > 0)
    /\ RunSucceeded =>
          (FileOf("security") \in Range(retFiles)
              <=> Len(api.SecuritySchemes) > 0)
    /\ pc = "sec_format" => handed["security"] = api.SecuritySchemes

\* a request is being served, or was, whose action declares a payload
ServingPayloadAction == mount.pc # "idle" /\ Routed.Payload # NoPayload

\* the context of the request was built without error
ContextBuilt == mount.pc \in {"action", "done"} /\ mount.result # ErrContext

\* C12: for an action with a payload that is not optional, once the context
\* was built, a request without payload ends with the missing payload error
\* and the action method is not called; with a payload, the payload is in
\* the context's Payload field when the action method is called.
C12_RequiredPayload ==
    (ServingPayloadAction /\ ~Routed.PayloadOptional /\ ContextBuilt) =>
        /\ ~mount.raw.present =>
              /\ mount.pc = "done"
              /\ mount.result = ErrMissingPayload
              /\ ~mount.called
        /\ mount.raw.present =>
              /\ mount.payload = mount.raw.value
              /\ mount.result # ErrMissingPayload

\* C12 witness: a request without payload to the action of PayloadAPI was
\* rejected
C12_Rejected ==
    /\ api = PayloadAPI
    /\ mount.pc = "done"
    /\ ~mount.raw.present
    /\ mount.result = ErrMissingPayload

\* C13: for an action with an optional payload the handler never returns
\* the missing payload error; once the context was built, a request without
\* payload reaches the action method with the Payload field at its zero
\* value, and a request with a payload reaches it with that payload.
C13_OptionalPayload ==
    (ServingPayloadAction /\ Routed.PayloadOptional) =>
        /\ mount.result # ErrMissingPayload
        /\ ContextBuilt =>
              /\ mount.payload =
                    (IF mount.raw.present THEN mount.raw.value
                                          ELSE ZeroCollection)
              /\ mount.pc = "done" => mount.called

\* C13 witness: the action of OptionalAPI was called for a request without
\* payload
C13_CalledWithoutPayload ==
    /\ api = OptionalAPI
    /\ mount.pc = "done"
    /\ ~mount.raw.present
    /\ mount.called
    /\ mount.payload = ZeroCollection

\* the controllers writer's Execute was called in this run
ControllersExecuted ==
    \/ pc = "ctl_format"
    \/ returned["controllers"] \in
          {NoErr, ExecErr("controllers"), FormatErr("controllers")}

\* the resources with at least one action or file server
WithController ==
    {i \in 1..Len(api.Resources) :
        Len(api.Resources[i].Actions) > 0
            \/ Len(api.Resources[i].FileServers) > 0}

\* C14: the controllers writer is handed one unit for each resource with an
\* action or a file server and none for the other resources, in resource
\* iteration order, each unit listing the actions of its resource once each
\* and in order.
C14_ControllerUnits ==
    ControllersExecuted =>
        /\ Len(handed["controllers"]) = Cardinality(WithController)
        /\ \A i \in WithController :
              LET u == handed["controllers"]
                           [Cardinality({h \in WithController : h <= i})]
                  r == api.Resources[i]
              IN  /\ u.Resource = Goify(r.Name, TRUE)
                  /\ u.FileServers = r.FileServers
                  /\ Len(u.Actions) = Len(r.Actions)
                  /\ \A j \in 1..Len(r.Actions) :
                        u.Actions[j].Name = Goify(r.Actions[j].Name, TRUE)

\* C14 witness: of the three resources of FilesAPI, the one serving files
\* and the one with an action got a unit
C14_FileServerUnit ==
    /\ api = FilesAPI
    /\ ControllersExecuted
    /\ Len(handed["controllers"]) = Cardinality(WithController)
    /\ Len(handed["controllers"][1].Actions) = 0
    /\ Len(handed["controllers"][1].FileServers) > 0

\* the k-th context unit handed over holds the responses of its action whose
\* status is not 101, under their names
Non101Handed(k) ==
    LET given == handed["contexts"][k].Responses
        declared == ActionPairs(api)[k].act.Responses
    IN  /\ DOMAIN given = {n \in DOMAIN declared : declared[n].Status # 101}
        /\ \A n \in DOMAIN given :
              given[n] = declared[n] /\ given[n].Status # 101

\* C15: the responses handed to the contexts writer for an action are the
\* responses of the action whose status is not 101, under the same names,
\* and no step of the generation changes the responses the action declares.
C15_Non101Responses ==
    /\ [](\A k \in 1..Len(handed["contexts"]) : Non101Handed(k))
    /\ [][api' = api]_vars

\* C15 witness: the unit of the action of FilesAPI that declares the
\* responses ok (200), switch (101) and notfound (404) was handed over
C15_SwitchLeftOut ==
    /\ api = FilesAPI
    /\ Len(handed["contexts"]) = 1
    /\ DOMAIN handed["contexts"][1].Responses = {"ok", "notfound"}
    /\ "switch" \in DOMAIN api.Resources[3].Actions[1].Responses

\* the number of units handed to writer w that are unit u
UnitCount(w, u) ==
    Cardinality({k \in 1..Len(handed[w]) : handed[w][k] = u})

\* a user types writer that returned nil was handed each user type once
UserTypesEmitted ==
    returned["user_types"] = NoErr =>
        /\ \A i \in 1..Len(api.UserTypes) :
              UnitCount("user_types", api.UserTypes[i]) = 1
        /\ Len(handed["user_types"]) = Len(api.UserTypes)

\* C16: a media types writer that returned nil was handed exactly one unit
\* for every media type that is not built in and none for a built-in one;
\* a user types writer that returned nil was handed exactly one unit for
\* every user type.
C16_OneUnitPerType ==
    /\ returned["media_types"] = NoErr =>
          \A i \in 1..Len(api.MediaTypes) :
              UnitCount("media_types", api.MediaTypes[i])
                  = (IF api.MediaTypes[i].BuiltIn THEN 0 ELSE 1)
    /\ UserTypesEmitted

\* C16 as amended: a media types writer that returned nil was handed exactly
\* one unit for every media type that is not built in and whose type is an
\* object or an array, and none for any other media type; a user types
\* writer that returned nil was handed exactly one unit for every user type.
C16_ObjectAndArrayTypes ==
    /\ returned["media_types"] = NoErr =>
          /\ \A i \in 1..Len(api.MediaTypes) :
                UnitCount("media_types", api.MediaTypes[i])
                    = (IF /\ ~api.MediaTypes[i].BuiltIn
                          /\ api.MediaTypes[i].Kind \in {"object", "array"}
                       THEN 1 ELSE 0)
          /\ \A k \in 1..Len(handed["media_types"]) :
                \E i \in 1..Len(api.MediaTypes) :
                    handed["media_types"][k] = api.MediaTypes[i]
    /\ UserTypesEmitted

\* C16 witness: of the built-in, the array and the string media type of
\* FilesAPI only the array one was handed over, and its user type was
C16_ArrayTypeOnly ==
    /\ api = FilesAPI
    /\ returned["media_types"] = NoErr
    /\ returned["user_types"] = NoErr
    /\ Len(handed["media_types"]) = 1
    /\ handed["media_types"][1].Kind = "array"
    /\ handed["user_types"] = <<"id">>

\* the identifier the controllers writer was handed for the action the k-th
\* context unit was built from
ControllerSideName(k) ==
    LET pair == ActionPairs(api)[k]
        i == CHOOSE h \in 1..Len(api.Resources) : api.Resources[h] = pair.res
        j == CHOOSE h \in 1..Len(pair.res.Actions) :
                 pair.res.Actions[h] = pair.act
    IN  handed["controllers"]
            [Cardinality({h \in WithController : h <= i})].Actions[j].Context

\* C17: once the controllers writer was handed its units, every action has
\* a context unit, and the context identifier in that unit is the context
\* identifier in the action's entry of its controller unit.
C17_SameContextName ==
    ControllersExecuted =>
        /\ Len(handed["contexts"]) = Len(ActionPairs(api))
        /\ \A k \in 1..Len(ActionPairs(api)) :
              handed["contexts"][k].Name = ControllerSideName(k)

\* C17 witness: both writers derived GWWFContext for action g-w of resource
\* w_f
C17_DerivedTwice ==
    /\ api = SecureAPI
    /\ ControllersExecuted
    /\ handed["contexts"][2].Name = <<"G", "W", "W", "F", "Context">>
    /\ handed["controllers"][1].Actions[2].Context
          = <<"G", "W", "W", "F", "Context">>

\* the identifier is registered in the API
Registered(id) == \E i \in 1..Len(api.MediaTypes) : api.MediaTypes[i].Identifier = id

\* C18: the href data built for a resource that names a media type
\* registered in the API carries as Type the definition registered under
\* that identifier, and as Identifier the identifier of that definition.
C18_HrefMediaType ==
    \A i \in 1..Len(handed["hrefs"]) :
        Registered(api.Resources[i].MediaType) =>
            /\ \E k \in 1..Len(api.MediaTypes) :
                  /\ api.MediaTypes[k].Identifier = api.Resources[i].MediaType
                  /\ handed["hrefs"][i].Type = api.MediaTypes[k]
            /\ handed["hrefs"][i].Identifier = handed["hrefs"][i].Type.Identifier

\* C18 witness: the href data of the three resources of FilesAPI were built;
\* the third names the registered vnd.list, the first an identifier that is
\* not registered
C18_ListResolved ==
    /\ api = FilesAPI
    /\ Len(handed["hrefs"]) = Len(api.Resources)
    /\ handed["hrefs"][3].Identifier = "vnd.list"
    /\ handed["hrefs"][3].Type.Kind = "array"
    /\ handed["hrefs"][1].Identifier = "text/plain"

\* what a call of Cleanup does at generator.go:94-97, given whether the
\* caller went on to line 98: with an empty file list it returns and changes
\* nothing, otherwise it removes the output directory
CleanupRemoved(goesOn) ==
    IF genfiles = <<>>
    THEN ~goesOn /\ UNCHANGED <<genfiles, FS>>
    ELSE /\ goesOn
         /\ newFiles' = {}
         /\ dirExists' => locked
         /\ UNCHANGED genfiles

\* what Cleanup does at generator.go:98
CleanupCleared == genfiles' = <<>> /\ UNCHANGED FS

\* C19: a call of Cleanup, by the deferred function or by a watcher,
\* removes the output directory exactly when the file list is not empty,
\* and then empties the list; the file list is not empty only once this
\* generator has created the directory; a Cleanup that finds the list empty,
\* such as one that follows another Cleanup, changes nothing.
C19_CleanupIdempotent ==
    /\ [](genfiles # <<>> =>
             pc \notin {"idle", "entry", "removeAll", "mkdirAll", "setGenfiles"})
    /\ [][/\ pc = "cleanup" /\ pc' # pc =>
                CleanupRemoved(pc' = "cleanup_clear")
          /\ pc = "cleanup_clear" /\ pc' # pc =>
                CleanupCleared /\ pc' = "returned"
          /\ \A i \in 1..MaxRuns :
                /\ watcher[i] = "cleanup" /\ watcher'[i] # watcher[i] =>
                      /\ CleanupRemoved(watcher'[i] = "clear")
                      /\ watcher'[i] \in {"clear", "exited"}
                /\ watcher[i] = "clear" /\ watcher'[i] # watcher[i] =>
                      CleanupCleared /\ watcher'[i] = "exited"]_vars

\* C19 witness: the deferred function called Cleanup after a writer failed,
\* the watcher called it too, both calls are over and Generate has returned
C19_CleanedTwice ==
    /\ pc = "returned"
    /\ cleaned
    /\ signalled
    /\ watcher[run] = "exited"
    /\ genfiles = <<>>
    /\ written # <<>>
    /\ ~dirExists

\* the imports that follow the five fixed ones
EncoderPart == SubSeq(imports, 6, Len(imports))

\* the package paths of the encodings the API produces or consumes
DeclaredPaths ==
    {api.Produces[i].PackagePath : i \in 1..Len(api.Produces)}
        \cup {api.Consumes[i].PackagePath : i \in 1..Len(api.Consumes)}

PlainMediaTypes ==
    {api.MediaTypes[i] : i \in {k \in 1..Len(api.MediaTypes) :
        /\ ~api.MediaTypes[k].BuiltIn
        /\ api.MediaTypes[k].Kind \notin {"object", "array"}}}

\* C21: a media type that is not built in and whose type is neither an
\* object nor an array is never handed to the media types writer; when the
\* writer has returned nil, media_types.go was created all the same, and
\* when Generate returns a nil error the list it returns holds it.
C21_PlainMediaTypeSkipped ==
    PlainMediaTypes # {} =>
        /\ \A k \in 1..Len(handed["media_types"]) :
              handed["media_types"][k] \notin PlainMediaTypes
        /\ returned["media_types"] = NoErr =>
              FileOf("media_types") \in Range(written)
        /\ RunSucceeded => FileOf("media_types") \in Range(retFiles)

\* C22: a call of Generate with a nil API definition returns a nil file
\* list and the missing API error; no step of it changes the output
\* directory or its content, starts a watcher, changes the generator's file
\* list or calls a writer.
C22_NilAPINoSideEffect ==
    /\ [](api.isNil =>
             /\ pc \in {"idle", "entry", "returned"}
             /\ pc = "returned" => err = ErrMissingAPI /\ retFiles = <<>>
             /\ DirNow = preDir
             /\ started = <<>>
             /\ \A i \in 1..MaxRuns : watcher[i] = "none")
    /\ [][api.isNil => UNCHANGED <<genfiles, FS, watcher>>]_vars

\* C22 witness: Generate has returned for a nil API definition, the output
\* directory still holding the file it held before
C22_NilAPIReturned ==
    /\ api.isNil
    /\ pc = "returned"
    /\ err = ErrMissingAPI
    /\ dirExists
    /\ StaleFile \in oldFiles

\* C23: once a call of Cleanup, by a watcher or by the deferred function,
\* has removed the output directory in a run, no writer is called and no
\* file is created under the output directory in the rest of the run, and a
\* run whose directory a watcher removed does not return a nil error.
C23_NothingAfterCleanup ==
    /\ [][removedBy # "none" =>
             /\ started' = started
             /\ written' = written
             /\ newFiles' \subseteq newFiles]_vars
    /\ [](removedBy = "watcher" /\ pc = "returned" => err # NoErr)

\* C24: after Generate has returned a nil error in a run no signal reached
\* before the return, the output directory and every file of the returned
\* list are in place, whatever signal arrives afterwards.
C24_OutputStays ==
    (RunSucceeded /\ ~signalled) =>
        /\ dirExists
        /\ \A k \in 2..Len(retFiles) : Present(retFiles[k])

=============================================================================
